---- MODULE Spec2Model ----
(***************************************************************************)
(* Verification model of the mirror-box acquisition / fusion pipeline.     *)
(*                                                                         *)
(*   FusionEngine     src/src/fusion_engine.py                             *)
(*   AngleEngine      src/src/angle_utils.py                               *)
(*   HandTracker      src/src/hand_tracker.py                              *)
(*   TrialController  src/src/trial_controller.py                          *)
(*   main             src/run_trial.py  (the script-level trial loop)      *)
(*   CameraInterface  src/src/camera_interface.py, src/picam2/new.py       *)
(*                                                                         *)
(* Time.  time.monotonic() and time.monotonic_ns() read one monotonic      *)
(* clock.  The variable clock is that clock, counted in model ticks; a     *)
(* read returns its current value.  The clock never goes backwards, and    *)
(* nothing in the program makes it advance between two reads: it advances  *)
(* through ClockAdvance, and by 0 or 1 tick between the two reads inside   *)
(* ingest.  TicksPer1e4 ticks make 0.0001 s, the unit round(x, 4) keeps.   *)
(*                                                                         *)
(* Values.  Sensor values and confidences are counted in value ticks;      *)
(* TicksPer1e2 ticks make 0.01, the unit round(x, 2) keeps.                *)
(***************************************************************************)
EXTENDS Integers, Sequences, FiniteSets, TLC

VARIABLES
    clock,           \* the monotonic clock
    \* ---- FusionEngine ----
    start_time,      \* FusionEngine.start_time
    csv_rows,        \* lines written through FusionEngine.writer to trial_log.csv
    csv_closed,      \* FusionEngine.csv_file.closed
    frame_data,      \* FusionEngine.frame_data
    summary,         \* content of summary.json (NoSummary while it does not exist)
    summary_writes,  \* number of times summary.json has been opened for writing
    close_calls,     \* number of FusionEngine.close() calls made
    calls,           \* history: arguments and clock reads of the ingest calls that returned
    raised,          \* exception raised by the last FusionEngine call of the client, or "none"
    \* ---- trial loop (TrialController.run / run_trial.main) ----
    driver,          \* "api": FusionEngine used directly; "controller"; "script"
    config,          \* the trial configuration: mock mode and duration
    pc,              \* position of the main thread in run() / main()
    running,         \* TrialController.running
    run_start,       \* local start_time of run() / main()
    cam_running,     \* CameraInterface.running
    frame_buffer,    \* CameraInterface.frame_buffer (NoFrame or a frame number)
    timestamp_buffer,\* CameraInterface.timestamp_buffer
    emg_running,     \* EMGInterface.running
    tick,            \* locals and call log of the current loop iteration
    stop_calls,      \* number of times the shutdown sequence has been entered
    loop_exit,       \* what ended the loop: "none" while it runs
    interrupted,     \* history: SIGINT was delivered after run() / main() was entered
    \* ---- CameraInterface in detail (a client that uses one camera directly) ----
    variant,         \* "opencv": src/src/camera_interface.py; "picam2": src/picam2/new.py
    mock_mode,       \* CameraInterface.mock_mode
    width,           \* CameraInterface.width
    height,          \* CameraInterface.height
    roi_bounds,      \* CameraInterface.roi_bounds (NoRoi or <<x, y, w, h>>)
    lock,            \* holder of CameraInterface.lock (NoOwner or a producer thread)
    threads,         \* the producer threads start() has spawned: position and locals
    heap,            \* the arrays alive in memory, by object id
    captures,        \* number of frames the backend has delivered so far
    roi_ignored,     \* history: the last set_roi call was ignored
    published,       \* history: the completed publish steps, in order
    reads,           \* history: what each read() call returned, in order
    \* ---- CameraInterface: the backend handles and stop() ----
    source,          \* CameraInterface.source: "index" (a camera index) or "file" (a path)
    use_csi,         \* CameraInterface.use_csi
    use_gstreamer,   \* CameraInterface.use_gstreamer
    picamera2_available, \* PICAMERA2_AVAILABLE: the picamera2 module could be imported
    cap,             \* CameraInterface.cap: "none", or a VideoCapture that is "open" or "closed"
    picam2,          \* CameraInterface.picam2: "none", or a Picamera2 that is "started" or "closed"
    cam_pc,          \* position of the client thread inside stop(): "idle" outside of it
    cam_raised,      \* whether the last start() call raised: "none" or "error"
    attempted,       \* history: the backend the last start() call tried to open
    releases,        \* history: release calls made on the handle the camera holds now
    cam_stops,       \* history: number of stop() calls that have returned
    misses           \* history: capture attempts that failed since the last delivered frame

fusion_vars == <<start_time, csv_rows, csv_closed, frame_data, summary,
                 summary_writes, close_calls, calls, raised>>

trial_vars == <<driver, config, pc, running, run_start, cam_running, frame_buffer,
                timestamp_buffer, emg_running, tick, stop_calls, loop_exit,
                interrupted>>

backend_vars == <<source, use_csi, use_gstreamer, picamera2_available, cap, picam2,
                  cam_pc, cam_raised, attempted, releases, cam_stops, misses>>

camera_vars == <<variant, mock_mode, width, height, roi_bounds, lock, threads, heap,
                 captures, roi_ignored, published, reads, backend_vars>>

vars == <<clock, fusion_vars, trial_vars, camera_vars>>

----------------------------------------------------------------------------
(* Bounds of the model. *)

\* the clock stops advancing at MaxClock when the FusionEngine is used directly
MaxClock == 3
\* the clock stops advancing at MaxTrialClock during a trial
MaxTrialClock == 2
\* at most MaxIngest ingest calls are made
MaxIngest == 2
\* at most MaxClose close() calls are made by a direct client
MaxClose == 2
\* clock ticks per 0.0001 s
TicksPer1e4 == 2
\* value ticks per 0.01
TicksPer1e2 == 2
\* the camera producer publishes at most MaxFrames frames
MaxFrames == 1
\* the camera backend delivers at most MaxCaptures frames to such a client
MaxCaptures == 2
\* such a client calls read() at most MaxReads times
MaxReads == 2
\* frames are at most MaxDim pixels wide and MaxDim pixels high
MaxDim == 2
\* a client that runs the life cycle of a camera calls stop() at most MaxStops times
MaxStops == 2
\* failed capture attempts in a row are counted up to MaxMisses
MaxMisses == 2

----------------------------------------------------------------------------
(* Values. *)

\* an absent detection (None); a detection is a record with present = TRUE
Absent == [present |-> FALSE, landmarks |-> "none", handedness |-> "none", confidence |-> 0]
\* summary.json does not exist; otherwise summary is <<content>>
NoSummary == <<>>
NoFrame == 0

\* CameraInterface.roi_bounds is None
NoRoi == <<>>
\* CameraInterface.lock is not held
NoOwner == 0

SessionId == "default_session"
CsvPath == "data/default_session/trial_log.csv"

\* FusionEngine.header
Header ==
    <<"timestamp_ns", "trial_time_s", "hand_visible", "handedness", "confidence",
      "index_mcp", "index_pip", "index_dip", "emg_val", "grip_force">>

HeaderLine == [kind |-> "header", cells |-> Header]

\* Hand skeletons the pose estimator can return, and the detections built from them.
Skeletons == {"extended", "flexed"}

Detections ==
    { [present |-> TRUE, landmarks |-> "flexed", handedness |-> "Left", confidence |-> 3],
      [present |-> TRUE, landmarks |-> "extended", handedness |-> "Right", confidence |-> 4] }

VisionResults == {Absent} \cup Detections

\* Raw (EMG value, grip force) pairs a direct client passes to ingest, in value
\* ticks.
SensorReadings == {<<1, 3>>, <<7, 0>>}

\* The values the mock sources return during a trial, and the results of the
\* pose estimator during a trial.
MockEmgValues == {4}
MockGripValues == {3}
TrackerResults ==
    {Absent,
     [present |-> TRUE, landmarks |-> "flexed", handedness |-> "Left", confidence |-> 3]}

\* Trial durations a configuration can ask for, in clock ticks.
Durations == {1, 2}

\* Trial durations a TrialController can be constructed with:
\* "self.duration = config.get('duration', 60)" takes any number, while the
\* prompt of run_trial.py only lets a positive one through.
ControllerDurations == {0} \cup Durations

\* The configurations of a trial, by client: the mode, the duration and the
\* handedness-invert flag, which is set in the mock configurations and clear
\* in the others.
TrialConfigs(d) ==
    {[mock |-> m, duration |-> t, handedness_invert |-> m] :
        m \in BOOLEAN, t \in IF d = "controller" THEN ControllerDurations ELSE Durations}

\* what one loop iteration has done so far: the frame cam.read() returned, the
\* calls made, the samples held between two steps, the label the pose
\* estimator gave the hand, the key read, and the call that raised
EmptyTick ==
    [frame_read |-> FALSE, frame |-> NoFrame,
     emg_read |-> FALSE, emg_data |-> <<0, 0>>,
     grip_read |-> FALSE, grip_data |-> 0, pose_called |-> FALSE,
     label |-> "none",
     ingested |-> FALSE, key |-> "none", raised |-> "none"]

----------------------------------------------------------------------------
(* Pure functions. *)

\* Python's round(x, n) for x >= 0 on a grid of q ticks per kept unit:
\* the nearest multiple of q, ties to the even multiple.
PyRound(x, q) ==
    LET lo == x \div q
        r  == x % q
    IN  IF 2 * r < q THEN q * lo
        ELSE IF 2 * r > q THEN q * (lo + 1)
        ELSE IF lo % 2 = 0 THEN q * lo
        ELSE q * (lo + 1)

\* AngleEngine.JOINTS: the landmark indices of each finger, from the palm outward
JOINTS ==
    [f \in {"thumb", "index", "middle", "ring", "pinky"} |->
        IF f = "thumb" THEN <<1, 2, 3, 4>>
        ELSE IF f = "index" THEN <<5, 6, 7, 8>>
        ELSE IF f = "middle" THEN <<9, 10, 11, 12>>
        ELSE IF f = "ring" THEN <<13, 14, 15, 16>>
        ELSE <<17, 18, 19, 20>>]

\* the landmark index of the wrist
Wrist == 0

\* the points of one finger of a skeleton, landmark by landmark: the thumb and
\* every finger of the extended hand lie on a straight line through the wrist;
\* the fingers of the flexed hand bend by 90, 90 and 45 degrees, its thumb by
\* 90 and 90
FingerPoints(skeleton, f) ==
    IF skeleton = "extended"
    THEN IF f = "thumb" THEN <<<<-1, 1, 0>>, <<-2, 2, 0>>, <<-3, 3, 0>>, <<-4, 4, 0>>>>
         ELSE IF f = "index" THEN <<<<-1, 2, 0>>, <<-2, 4, 0>>, <<-3, 6, 0>>, <<-4, 8, 0>>>>
         ELSE IF f = "middle" THEN <<<<0, 2, 0>>, <<0, 4, 0>>, <<0, 5, 0>>, <<0, 6, 0>>>>
         ELSE IF f = "ring" THEN <<<<1, 2, 1>>, <<2, 4, 2>>, <<3, 6, 3>>, <<4, 8, 4>>>>
         ELSE <<<<1, 1, 0>>, <<2, 2, 0>>, <<3, 3, 0>>, <<4, 4, 0>>>>
    ELSE IF f = "thumb" THEN <<<<1, 0, 0>>, <<2, 0, 0>>, <<2, 1, 0>>, <<1, 1, 0>>>>
         ELSE <<<<0, 1, 0>>, <<1, 1, 0>>, <<1, 0, 0>>, <<2, -1, 0>>>>

\* "coords = np.array([(lm.x, lm.y, lm.z) for lm in landmarks.landmark])": the
\* 21 points of a skeleton on an integer grid, the point of landmark i at
\* position i + 1: the wrist, then the fingers in the order of their indices
Landmarks(skeleton) ==
    <<<<0, 0, 0>>>> \o FingerPoints(skeleton, "thumb") \o FingerPoints(skeleton, "index")
        \o FingerPoints(skeleton, "middle") \o FingerPoints(skeleton, "ring")
        \o FingerPoints(skeleton, "pinky")

\* coords[i]
Point(coords, i) == coords[i + 1]

\* p - q and the dot product of two vectors
Sub(p, q) == <<p[1] - q[1], p[2] - q[2], p[3] - q[3]>>
Dot(u, v) == u[1] * v[1] + u[2] * v[2] + u[3] * v[3]

\* np.degrees(np.arccos(dot / (norm1 * norm2))) rounded to one decimal, in tenths
\* of a degree, from the dot product d and the squared norms n1, n2 of two
\* grid vectors; exact for the multiples of 30 and 45 degrees, the only angles
\* the skeletons of the model form
ArcCosTenths(d, n1, n2) ==
    LET base == IF d * d = n1 * n2 THEN 0
                ELSE IF 4 * d * d = 3 * n1 * n2 THEN 300
                ELSE IF 2 * d * d = n1 * n2 THEN 450
                ELSE IF 4 * d * d = n1 * n2 THEN 600
                ELSE 900
    IN  IF d >= 0 THEN base ELSE 1800 - base

\* AngleEngine._compute_angle: the angle at p2 between p2-p1 and p2-p3; 0 when
\* one of the two vectors has no length
ComputeAngle(p1, p2, p3) ==
    LET v1 == Sub(p1, p2)
        v2 == Sub(p3, p2)
    IN  IF Dot(v1, v1) = 0 \/ Dot(v2, v2) = 0 THEN 0
        ELSE ArcCosTenths(Dot(v1, v2), Dot(v1, v1), Dot(v2, v2))

\* the body of AngleEngine.compute_hand_angles on the points coords: per
\* finger and joint, in tenths of a degree.  The fingers report 180 minus the
\* angle at the joint; the thumb reports the angle at the joint itself.
HandAngles(coords) ==
    [f \in DOMAIN JOINTS |->
        LET idxs == JOINTS[f]
        IN  IF f = "thumb"
            THEN [j \in {"mcp", "ip"} |->
                    IF j = "mcp"
                    THEN ComputeAngle(Point(coords, idxs[1]), Point(coords, idxs[2]),
                                      Point(coords, idxs[3]))
                    ELSE ComputeAngle(Point(coords, idxs[2]), Point(coords, idxs[3]),
                                      Point(coords, idxs[4]))]
            ELSE [j \in {"mcp", "pip", "dip"} |->
                    IF j = "mcp"
                    THEN 1800 - ComputeAngle(Point(coords, Wrist), Point(coords, idxs[1]),
                                             Point(coords, idxs[2]))
                    ELSE IF j = "pip"
                    THEN 1800 - ComputeAngle(Point(coords, idxs[1]), Point(coords, idxs[2]),
                                             Point(coords, idxs[3]))
                    ELSE 1800 - ComputeAngle(Point(coords, idxs[2]), Point(coords, idxs[3]),
                                             Point(coords, idxs[4]))]]

\* the angles of the skeletons of the model, computed once
SkeletonAngles == [skeleton \in Skeletons |-> HandAngles(Landmarks(skeleton))]

\* AngleEngine.compute_hand_angles on the landmarks of a detection
ComputeHandAngles(landmarks) == SkeletonAngles[landmarks]

\* the default of ingest when no hand is visible
DefaultAngles == [f \in {"index"} |-> [j \in {"mcp", "pip", "dip"} |-> 0]]

\* angles.get(finger, {}).get(joint, 0)
AngleGet(angles, finger, joint) ==
    IF finger \in DOMAIN angles
    THEN IF joint \in DOMAIN angles[finger] THEN angles[finger][joint] ELSE 0
    ELSE 0

\* ParseVision with a fault: without a detection the angles of the last
\* buffered row are reused
ParseVisionCarry(vision_result) ==
    IF vision_result.present
    THEN [hand_visible |-> 1,
          handedness   |-> vision_result.handedness,
          conf         |-> vision_result.confidence,
          angles       |-> ComputeHandAngles(vision_result.landmarks)]
    ELSE [hand_visible |-> 0,
          handedness   |-> "None",
          conf         |-> 0,
          angles       |->
              IF frame_data = <<>> THEN DefaultAngles
              ELSE LET last == frame_data[Len(frame_data)]
                   IN  [f \in {"index"} |->
                          [j \in {"mcp", "pip", "dip"} |->
                             IF j = "mcp" THEN last[6]
                             ELSE IF j = "pip" THEN last[7] ELSE last[8]]]]

\* "1. Parse Vision" of ingest
ParseVision(vision_result) ==
    IF vision_result.present
    THEN [hand_visible |-> 1,
          handedness   |-> vision_result.handedness,
          conf         |-> vision_result.confidence,
          angles       |-> ComputeHandAngles(vision_result.landmarks)]
    ELSE [hand_visible |-> 0,
          handedness   |-> "None",
          conf         |-> 0,
          angles       |-> DefaultAngles]

\* WriteRow with a fault: every write replaces the previous data row
WriteRowOverwrite(rows, row) == <<Head(rows), [kind |-> "row", cells |-> row]>>

\* WriteRow with a fault: the new row goes in front of the earlier data rows
WriteRowFront(rows, row) ==
    <<Head(rows), [kind |-> "row", cells |-> row]>> \o Tail(rows)

\* WriteRow with a fault: the last cell of the row is not written
WriteRowShort(rows, row) ==
    Append(rows, [kind |-> "row", cells |-> SubSeq(row, 1, Len(row) - 1)])

\* WriteRow with a fault: the row is written to the file twice
WriteRowTwice(rows, row) ==
    Append(Append(rows, [kind |-> "row", cells |-> row]), [kind |-> "row", cells |-> row])

\* WriteRow with a fault: a row whose hand_visible cell is 0 is not written
WriteRowSkipAbsent(rows, row) ==
    IF row[3] = 0 THEN rows ELSE Append(rows, [kind |-> "row", cells |-> row])

\* writer.writerow(row) on the open file
WriteRow(rows, row) == Append(rows, [kind |-> "row", cells |-> row])

\* TrialTime with a fault: the operands of the subtraction are swapped
TrialTimeSwapped(now, started) == started - now

\* trial_time of ingest: the elapsed time since the engine was constructed
TrialTime(now, started) == now - started

\* the value ingest logs as trial_time_s
LoggedTrialTime(trial_time) == PyRound(trial_time, TicksPer1e4)

\* "3. Log to CSV" of ingest: the row, as the list of its ten cells
MakeRow(ts_now, trial_time, vision_result, emg_sample, grip_sample) ==
    LET v == ParseVision(vision_result)
        emg_val == emg_sample[2]
        grip_val == grip_sample
    IN  <<ts_now,
          LoggedTrialTime(trial_time),
          v.hand_visible,
          v.handedness,
          PyRound(v.conf, TicksPer1e2),
          AngleGet(v.angles, "index", "mcp"),
          AngleGet(v.angles, "index", "pip"),
          AngleGet(v.angles, "index", "dip"),
          PyRound(emg_val, TicksPer1e2),
          PyRound(grip_val, TicksPer1e2)>>

\* MakeSummary with a fault: the frames are divided by the duration even when
\* the duration is 0
MakeSummaryUnguarded(duration, frames) ==
    [session_id   |-> SessionId,
     duration_sec |-> duration,
     total_frames |-> frames,
     avg_fps      |-> <<frames, duration>>,
     file_path    |-> CsvPath]

\* the summary close() computes; avg_fps is the quotient frames / duration,
\* kept as the pair <<frames, duration>>, and <<0, 1>> is the number 0
MakeSummary(duration, frames) ==
    [session_id   |-> SessionId,
     duration_sec |-> duration,
     total_frames |-> frames,
     avg_fps      |-> IF duration > 0 THEN <<frames, duration>> ELSE <<0, 1>>,
     file_path    |-> CsvPath]

----------------------------------------------------------------------------
(* The clock. *)

ClockLimit == IF driver = "api" THEN MaxClock ELSE MaxTrialClock

ClockAdvance ==
    /\ clock < ClockLimit
    /\ clock' = clock + 1
    /\ UNCHANGED <<fusion_vars, trial_vars, camera_vars>>

\* the ticks the clock may advance between two reads inside one call
Lapse == {d \in 0..1 : clock + d <= ClockLimit}

----------------------------------------------------------------------------
(* FusionEngine. *)

\* FusionEngine.__init__ at clock reading now
FusionInit(now) ==
    /\ start_time = now
    /\ csv_rows = <<HeaderLine>>
    /\ csv_closed = FALSE
    /\ frame_data = <<>>
    /\ summary = NoSummary
    /\ summary_writes = 0
    /\ close_calls = 0
    /\ calls = <<>>
    /\ raised = "none"

\* FusionEngine.ingest: the clock is read twice, d ticks apart.  Writing to the
\* closed file raises ValueError before anything is recorded.
ingest(vision_result, emg_sample, grip_sample, d) ==
    LET ts_now == clock
        trial_time == TrialTime(clock + d, start_time)
        row == MakeRow(ts_now, trial_time, vision_result, emg_sample, grip_sample)
    IN  /\ clock' = clock + d
        /\ IF csv_closed
           THEN /\ raised' = "ValueError"
                /\ UNCHANGED <<csv_rows, frame_data, calls>>
           ELSE /\ raised' = "none"
                /\ csv_rows' = WriteRow(csv_rows, row)
                /\ frame_data' = Append(frame_data, row)
                /\ calls' = Append(calls,
                       [vision_result |-> vision_result, emg_sample |-> emg_sample,
                        grip_sample |-> grip_sample, ts_now |-> ts_now,
                        trial_time |-> trial_time])
        /\ UNCHANGED <<start_time, csv_closed, summary, summary_writes, close_calls>>

\* FusionEngine.close: closing a closed file does nothing; the summary is
\* computed and written on every call.
close ==
    LET duration == TrialTime(clock, start_time)
        frames == Len(frame_data)
    IN  /\ csv_closed' = TRUE
        /\ summary' = <<MakeSummary(duration, frames)>>
        /\ summary_writes' = summary_writes + 1
        /\ close_calls' = close_calls + 1
        /\ raised' = "none"
        /\ UNCHANGED <<clock, start_time, csv_rows, frame_data, calls>>

----------------------------------------------------------------------------
(* A client that uses one FusionEngine directly. *)

ApiIngest ==
    /\ driver = "api"
    /\ Len(calls) < MaxIngest
    /\ \E vision_result \in VisionResults, reading \in SensorReadings, d \in Lapse :
          ingest(vision_result, <<clock, reading[1]>>, reading[2], d)
    /\ UNCHANGED <<trial_vars, camera_vars>>

ApiClose ==
    /\ driver = "api"
    /\ close_calls < MaxClose
    /\ close
    /\ UNCHANGED <<trial_vars, camera_vars>>

\* CameraInterface.__init__: no backend handle, no ROI, the lock free, no
\* producer thread; no array exists and nothing has been published or read
CameraInit(v, src, w, h, mock, csi, gst) ==
    /\ variant = v
    /\ source = src
    /\ mock_mode = mock
    /\ use_csi = csi
    /\ use_gstreamer = gst
    /\ width = w
    /\ height = h
    /\ cap = "none"
    /\ picam2 = "none"
    /\ roi_bounds = NoRoi
    /\ lock = NoOwner
    /\ threads = <<>>
    /\ heap = <<>>
    /\ captures = 0
    /\ roi_ignored = FALSE
    /\ published = <<>>
    /\ reads = <<>>
    /\ cam_pc = "idle"
    /\ cam_raised = "none"
    /\ attempted = "none"
    /\ releases = 0
    /\ cam_stops = 0
    /\ misses = 0

\* CameraInterface(mock_mode=mock) with a frame size: source 0, no CSI, no
\* GStreamer, as TrialController and main construct it; picamera2 plays no part
CameraNew(v, mock, w, h) ==
    /\ CameraInit(v, "index", w, h, mock, FALSE, FALSE)
    /\ picamera2_available = FALSE

TrialIdle ==
    /\ config = [mock |-> TRUE, duration |-> 1, handedness_invert |-> TRUE]
    /\ pc = "idle"
    /\ running = FALSE
    /\ run_start = 0
    /\ cam_running = FALSE
    /\ frame_buffer = NoFrame
    /\ timestamp_buffer = 0
    /\ emg_running = FALSE
    /\ tick = EmptyTick
    /\ stop_calls = 0
    /\ loop_exit = "none"
    /\ interrupted = FALSE

InitFusion ==
    /\ clock \in 0..1
    /\ FusionInit(clock)
    /\ driver = "api"
    /\ TrialIdle
    /\ CameraNew("opencv", TRUE, 1, 1)

NextFusion == ClockAdvance \/ ApiIngest \/ ApiClose

SpecFusion == InitFusion /\ [][NextFusion]_vars

----------------------------------------------------------------------------
(* The sources of a trial: camera, EMG, grip, pose estimator. *)

\* CameraStartRaises with a fault: a backend that does not open is tolerated
\* off mock mode, as it is in mock mode
CameraStartRaisesNever(mock, opened) == FALSE

\* CameraInterface.start raises when the backend it tries does not open and
\* mock_mode is off.  As TrialController and main configure the camera (source
\* 0, no CSI, no GStreamer), no capture is opened in mock mode and the producer
\* thread generates frames; otherwise the capture must open, or start raises.
CameraStartRaises(mock, opened) == ~mock /\ ~opened

\* CameraInterface._capture_loop, "Update shared buffer": the producer thread
\* publishes a frame with the clock reading of that moment.
CamPublish ==
    /\ cam_running
    /\ frame_buffer < MaxFrames
    /\ frame_buffer' = frame_buffer + 1
    /\ timestamp_buffer' = clock
    /\ UNCHANGED <<clock, fusion_vars, camera_vars, driver, config, pc, running, run_start,
                   cam_running, emg_running, tick, stop_calls, loop_exit, interrupted>>

\* EMGInterface.read_sample: (timestamp_ns, value); the value is 0.0 off mock mode
EmgSamples(mock) == {<<clock, v>> : v \in IF mock THEN MockEmgValues ELSE {0}}

\* GripInterface.read_force: the force; 0.0 off mock mode
GripSamples(mock) == IF mock THEN MockGripValues ELSE {0}

\* "if invert_handedness: final_label = 'Left' if original_label == 'Right'
\* else 'Right'"
SwapLabel(original_label) == IF original_label = "Right" THEN "Left" ELSE "Right"

\* the default of the parameter invert_handedness of HandTracker.process, which
\* is what "self.tracker.process(frame, ts)" and "tracker.process(frame,
\* frame_ts)" run with: neither call passes the parameter
InvertHandednessDefault == TRUE

\* HandTracker.process on a frame in which the pose estimator found the hand
\* found, or none: the detection it returns
process(found, invert_handedness) ==
    IF found.present
    THEN [found EXCEPT !.handedness = IF invert_handedness THEN SwapLabel(@) ELSE @]
    ELSE Absent

----------------------------------------------------------------------------
(* TrialController.run and TrialController.stop. *)

TickPcs == {"capture", "sense", "process", "show"}

\* NextAfterRead with a fault: the check for a missing frame is left out
NextAfterReadUnchecked(frame) == "sense"

\* after cam.read(): "if frame is None: continue"
NextAfterRead(frame) == IF frame = NoFrame THEN "loop" ELSE "sense"

\* ExceptNext with a fault: run() returns from the except clause, there is no
\* finally clause
ExceptNextReturn == "stopped"

\* where control goes from the except clause of run(): into the finally clause
ExceptNext == "finally"

\* TrialController._signal_handler, run by SIGINT between any two steps of the
\* main thread
SignalHandler ==
    /\ driver = "controller"
    /\ pc \notin {"stopped", "failed"}
    /\ running' = FALSE
    /\ interrupted' = (interrupted \/ pc # "idle")
    /\ UNCHANGED <<clock, fusion_vars, camera_vars, driver, config, pc, run_start, cam_running,
                   frame_buffer, timestamp_buffer, emg_running, tick, stop_calls,
                   loop_exit>>

\* run() is called
RunEnter ==
    /\ driver = "controller"
    /\ pc = "idle"
    /\ pc' = "cam_start"
    /\ UNCHANGED <<clock, fusion_vars, camera_vars, driver, config, running, run_start, cam_running,
                   frame_buffer, timestamp_buffer, emg_running, tick, stop_calls,
                   loop_exit, interrupted>>

\* self.cam.start(); a RuntimeError leaves run()
RunStartCam ==
    /\ driver = "controller"
    /\ pc = "cam_start"
    /\ \E opened \in BOOLEAN :
          IF CameraStartRaises(config.mock, opened)
          THEN /\ pc' = "failed"
               /\ UNCHANGED cam_running
          ELSE /\ pc' = "emg_start"
               /\ cam_running' = TRUE
    /\ UNCHANGED <<clock, fusion_vars, camera_vars, driver, config, running, run_start,
                   frame_buffer, timestamp_buffer, emg_running, tick, stop_calls,
                   loop_exit, interrupted>>

\* self.emg.start()
RunStartEmg ==
    /\ driver = "controller"
    /\ pc = "emg_start"
    /\ emg_running' = TRUE
    /\ pc' = "set_running"
    /\ UNCHANGED <<clock, fusion_vars, camera_vars, driver, config, running, run_start, cam_running,
                   frame_buffer, timestamp_buffer, tick, stop_calls, loop_exit,
                   interrupted>>

\* self.running = True; start_time = time.monotonic()
RunSetRunning ==
    /\ driver = "controller"
    /\ pc = "set_running"
    /\ running' = TRUE
    /\ run_start' = clock
    /\ pc' = "loop"
    /\ UNCHANGED <<clock, fusion_vars, camera_vars, driver, config, cam_running, frame_buffer,
                   timestamp_buffer, emg_running, tick, stop_calls, loop_exit,
                   interrupted>>

\* DurationReached with a fault: the loop ends only after the duration is exceeded
DurationReachedLate(elapsed, duration) == elapsed > duration

\* "if time.monotonic() - start_time >= self.duration:" of run()
DurationReached(elapsed, duration) == elapsed >= duration

\* "while self.running:" and the duration check
RunLoopCheck ==
    /\ driver = "controller"
    /\ pc = "loop"
    /\ IF ~running
       THEN /\ pc' = "finally"
            /\ loop_exit' = IF tick.key = "q" THEN "key" ELSE "interrupt"
            /\ UNCHANGED tick
       ELSE IF DurationReached(clock - run_start, config.duration)
       THEN /\ pc' = "finally"
            /\ loop_exit' = "duration"
            /\ UNCHANGED tick
       ELSE /\ Len(calls) < MaxIngest
            /\ pc' = "capture"
            /\ tick' = EmptyTick
            /\ UNCHANGED loop_exit
    /\ UNCHANGED <<clock, fusion_vars, camera_vars, driver, config, running, run_start, cam_running,
                   frame_buffer, timestamp_buffer, emg_running, stop_calls, interrupted>>

\* frame, ts = self.cam.read(); if frame is None: continue
RunCapture ==
    /\ driver = "controller"
    /\ pc = "capture"
    /\ tick' = [tick EXCEPT !.frame_read = TRUE, !.frame = frame_buffer]
    /\ pc' = NextAfterRead(frame_buffer)
    /\ UNCHANGED <<clock, fusion_vars, camera_vars, driver, config, running, run_start, cam_running,
                   frame_buffer, timestamp_buffer, emg_running, stop_calls, loop_exit,
                   interrupted>>

\* "emg_data = self.emg.read_sample()" to "self.fusion.ingest(hand_res,
\* emg_data, grip_data)": the sensors are read, the pose estimator returns a
\* detection or nothing, the mirror frame is prepared and the record is
\* ingested.  The pose estimator may raise instead: the record is not ingested.
RunTick ==
    /\ driver = "controller"
    /\ pc = "sense"
    /\ \E emg_data \in EmgSamples(config.mock), grip_data \in GripSamples(config.mock) :
          \/ \E found \in TrackerResults, d \in Lapse :
                /\ ingest(process(found, InvertHandednessDefault), emg_data, grip_data, d)
                /\ tick' = [tick EXCEPT !.emg_read = TRUE, !.grip_read = TRUE,
                                        !.pose_called = TRUE, !.ingested = TRUE,
                                        !.label = found.handedness]
                /\ pc' = IF csv_closed THEN "except" ELSE "show"
          \/ /\ tick' = [tick EXCEPT !.emg_read = TRUE, !.grip_read = TRUE,
                                     !.pose_called = TRUE, !.raised = "pose"]
             /\ pc' = "except"
             /\ UNCHANGED <<clock, fusion_vars>>
    /\ UNCHANGED <<camera_vars, driver, config, running, run_start, cam_running, frame_buffer,
                   timestamp_buffer, emg_running, stop_calls, loop_exit, interrupted>>

\* self.display.show(mirror_frame); key = cv2.waitKey(1) & 0xFF; 'q' clears
\* self.running.  The display may raise.
RunShow ==
    /\ driver = "controller"
    /\ pc = "show"
    /\ \/ \E key \in {"none", "q"} :
             /\ tick' = [tick EXCEPT !.key = key]
             /\ running' = IF key = "q" THEN FALSE ELSE running
             /\ pc' = "loop"
       \/ /\ tick' = [tick EXCEPT !.raised = "display"]
          /\ pc' = "except"
          /\ UNCHANGED running
    /\ UNCHANGED <<clock, fusion_vars, camera_vars, driver, config, run_start, cam_running,
                   frame_buffer, timestamp_buffer, emg_running, stop_calls, loop_exit,
                   interrupted>>

\* except Exception as e: logger.error(...)
RunExcept ==
    /\ driver = "controller"
    /\ pc = "except"
    /\ loop_exit' = "exception"
    /\ pc' = ExceptNext
    /\ UNCHANGED <<clock, fusion_vars, camera_vars, driver, config, running, run_start, cam_running,
                   frame_buffer, timestamp_buffer, emg_running, tick, stop_calls,
                   interrupted>>

\* TrialController.stop / the finally clause of main: the camera and the EMG
\* source are stopped and the FusionEngine is closed
stop ==
    /\ cam_running' = FALSE
    /\ emg_running' = FALSE
    /\ close
    /\ stop_calls' = stop_calls + 1

\* finally: self.stop()
RunFinally ==
    /\ driver = "controller"
    /\ pc = "finally"
    /\ stop
    /\ pc' = "stopped"
    /\ UNCHANGED <<camera_vars, driver, config, running, run_start, frame_buffer, timestamp_buffer,
                   tick, loop_exit, interrupted>>

\* TrialController.stop when self.cam.stop() raises: CameraInterface.stop has
\* cleared running before it releases the capture; the exception leaves
\* stop() at "self.cam.stop()", before "self.emg.stop()" and
\* "self.fusion.close()" are reached
stopCamRaises ==
    /\ cam_running' = FALSE
    /\ stop_calls' = stop_calls + 1
    /\ UNCHANGED <<clock, fusion_vars, emg_running>>

\* finally: self.stop(), on a camera whose capture cannot be released (in
\* mock mode the camera holds no capture and stop() releases nothing); the
\* exception leaves run()
RunFinallyRaises ==
    /\ driver = "controller"
    /\ pc = "finally"
    /\ ~config.mock
    /\ stopCamRaises
    /\ pc' = "failed"
    /\ UNCHANGED <<camera_vars, driver, config, running, run_start, frame_buffer, timestamp_buffer,
                   tick, loop_exit, interrupted>>

----------------------------------------------------------------------------
(* main of run_trial.py: the same sources driven by the script's own loop. *)
(* No SIGINT handler is installed: SIGINT raises KeyboardInterrupt.        *)

\* after the three reads of "A. Acquire Data": "if frame is None: continue"
MainNextAfterRead(frame) == IF frame = NoFrame THEN "loop" ELSE "process"

\* KeyboardInterrupt: caught inside the try block, where the finally clause
\* follows; anywhere else it leaves main
MainInterrupt ==
    /\ driver = "script"
    /\ pc \notin {"idle", "stopped", "failed"}
    /\ interrupted' = TRUE
    /\ IF pc \in {"loop"} \cup TickPcs
       THEN /\ pc' = "finally"
            /\ loop_exit' = "interrupt"
       ELSE /\ pc' = "failed"
            /\ UNCHANGED loop_exit
    /\ UNCHANGED <<clock, fusion_vars, camera_vars, driver, config, running, run_start, cam_running,
                   frame_buffer, timestamp_buffer, emg_running, tick, stop_calls>>

\* the sources and the FusionEngine are constructed; "3. Start Streams" is next
MainEnter ==
    /\ driver = "script"
    /\ pc = "idle"
    /\ pc' = "cam_start"
    /\ UNCHANGED <<clock, fusion_vars, camera_vars, driver, config, running, run_start, cam_running,
                   frame_buffer, timestamp_buffer, emg_running, tick, stop_calls,
                   loop_exit, interrupted>>

\* camera.start(); a RuntimeError leaves main
MainStartCam ==
    /\ driver = "script"
    /\ pc = "cam_start"
    /\ \E opened \in BOOLEAN :
          IF CameraStartRaises(config.mock, opened)
          THEN /\ pc' = "failed"
               /\ UNCHANGED cam_running
          ELSE /\ pc' = "emg_start"
               /\ cam_running' = TRUE
    /\ UNCHANGED <<clock, fusion_vars, camera_vars, driver, config, running, run_start,
                   frame_buffer, timestamp_buffer, emg_running, tick, stop_calls,
                   loop_exit, interrupted>>

\* emg.start()
MainStartEmg ==
    /\ driver = "script"
    /\ pc = "emg_start"
    /\ emg_running' = TRUE
    /\ pc' = "set_running"
    /\ UNCHANGED <<clock, fusion_vars, camera_vars, driver, config, running, run_start, cam_running,
                   frame_buffer, timestamp_buffer, tick, stop_calls, loop_exit,
                   interrupted>>

\* start_time = time.monotonic()
MainSetStart ==
    /\ driver = "script"
    /\ pc = "set_running"
    /\ run_start' = clock
    /\ pc' = "loop"
    /\ UNCHANGED <<clock, fusion_vars, camera_vars, driver, config, running, cam_running,
                   frame_buffer, timestamp_buffer, emg_running, tick, stop_calls,
                   loop_exit, interrupted>>

\* while (time.monotonic() - start_time) < args.duration:
MainLoopCheck ==
    /\ driver = "script"
    /\ pc = "loop"
    /\ IF clock - run_start < config.duration
       THEN /\ Len(calls) < MaxIngest
            /\ pc' = "capture"
            /\ tick' = EmptyTick
            /\ UNCHANGED loop_exit
       ELSE /\ pc' = "finally"
            /\ loop_exit' = "duration"
            /\ UNCHANGED tick
    /\ UNCHANGED <<clock, fusion_vars, camera_vars, driver, config, running, run_start, cam_running,
                   frame_buffer, timestamp_buffer, emg_running, stop_calls, interrupted>>

\* frame, frame_ts = camera.read(); emg_sample = emg.read_sample();
\* grip_sample = grip.read_force(); if frame is None: continue
MainAcquire ==
    /\ driver = "script"
    /\ pc = "capture"
    /\ \E emg_data \in EmgSamples(config.mock), grip_data \in GripSamples(config.mock) :
          tick' = [tick EXCEPT !.frame_read = TRUE, !.frame = frame_buffer,
                               !.emg_read = TRUE, !.emg_data = emg_data,
                               !.grip_read = TRUE, !.grip_data = grip_data]
    /\ pc' = MainNextAfterRead(frame_buffer)
    /\ UNCHANGED <<clock, fusion_vars, camera_vars, driver, config, running, run_start, cam_running,
                   frame_buffer, timestamp_buffer, emg_running, stop_calls, loop_exit,
                   interrupted>>

\* "hand_result = tracker.process(frame, frame_ts)" and "data = fusion.ingest(
\* hand_result, emg_sample, grip_sample)", with the samples MainAcquire read.  An exception of the pose estimator is not caught by "except
\* KeyboardInterrupt" and leaves main through the finally clause.
MainTick ==
    /\ driver = "script"
    /\ pc = "process"
    /\ \/ \E found \in TrackerResults, d \in Lapse :
             /\ ingest(process(found, InvertHandednessDefault), tick.emg_data,
                       tick.grip_data, d)
             /\ tick' = [tick EXCEPT !.pose_called = TRUE, !.ingested = TRUE,
                                     !.label = found.handedness]
             /\ pc' = IF csv_closed THEN "finally" ELSE "show"
             /\ loop_exit' = IF csv_closed THEN "exception" ELSE loop_exit
       \/ /\ tick' = [tick EXCEPT !.pose_called = TRUE, !.raised = "pose"]
          /\ pc' = "finally"
          /\ loop_exit' = "exception"
          /\ UNCHANGED <<clock, fusion_vars>>
    /\ UNCHANGED <<camera_vars, driver, config, running, run_start, cam_running, frame_buffer,
                   timestamp_buffer, emg_running, stop_calls, interrupted>>

\* "D. Visualization", cv2.imshow, and "if cv2.waitKey(1) & 0xFF == ord('q'): break"
MainShow ==
    /\ driver = "script"
    /\ pc = "show"
    /\ \/ \E key \in {"none", "q"} :
             /\ tick' = [tick EXCEPT !.key = key]
             /\ pc' = IF key = "q" THEN "finally" ELSE "loop"
             /\ loop_exit' = IF key = "q" THEN "key" ELSE loop_exit
       \/ /\ tick' = [tick EXCEPT !.raised = "display"]
          /\ pc' = "finally"
          /\ loop_exit' = "exception"
    /\ UNCHANGED <<clock, fusion_vars, camera_vars, driver, config, running, run_start, cam_running,
                   frame_buffer, timestamp_buffer, emg_running, stop_calls, interrupted>>

\* finally: camera.stop(); emg.stop(); fusion.close()
MainFinally ==
    /\ driver = "script"
    /\ pc = "finally"
    /\ stop
    /\ pc' = "stopped"
    /\ UNCHANGED <<camera_vars, driver, config, running, run_start, frame_buffer, timestamp_buffer,
                   tick, loop_exit, interrupted>>

----------------------------------------------------------------------------
(* A trial: the controller or the script, with its sources and the clock. *)

InitTrial ==
    /\ clock = 0
    /\ FusionInit(clock)
    /\ driver \in {"controller", "script"}
    /\ config \in TrialConfigs(driver)
    /\ pc = "idle"
    /\ running = FALSE
    /\ run_start = 0
    /\ cam_running = FALSE
    /\ frame_buffer = NoFrame
    /\ timestamp_buffer = 0
    /\ emg_running = FALSE
    /\ tick = EmptyTick
    /\ stop_calls = 0
    /\ loop_exit = "none"
    /\ interrupted = FALSE
    /\ CameraNew("opencv", config.mock, 1, 1)

NextTrial ==
    \/ ClockAdvance
    \/ CamPublish
    \/ SignalHandler
    \/ RunEnter
    \/ RunStartCam
    \/ RunStartEmg
    \/ RunSetRunning
    \/ RunLoopCheck
    \/ RunCapture
    \/ RunTick
    \/ RunShow
    \/ RunExcept
    \/ RunFinally
    \/ MainInterrupt
    \/ MainEnter
    \/ MainStartCam
    \/ MainStartEmg
    \/ MainSetStart
    \/ MainLoopCheck
    \/ MainAcquire
    \/ MainTick
    \/ MainShow
    \/ MainFinally

SpecTrial == InitTrial /\ [][NextTrial]_vars

\* A step of the main thread inside the try block of run() / main().
MainThreadStep ==
    \/ RunLoopCheck \/ RunCapture \/ RunTick \/ RunShow \/ RunExcept
    \/ MainLoopCheck \/ MainAcquire \/ MainTick \/ MainShow

\* The trials on the mock sources, whose camera cannot fail to start.
InitTrialLive == InitTrial /\ config.mock

\* A trial on the mock sources in which time passes and the main thread keeps
\* being scheduled.
SpecTrialLive ==
    InitTrialLive /\ [][NextTrial]_vars /\ WF_vars(ClockAdvance) /\ WF_vars(MainThreadStep)

\* The trials of the controller.
InitShutdown == InitTrial /\ driver = "controller"

\* A step of a trial of the controller whose camera can fail to release its
\* capture when it is stopped.
NextShutdown ==
    \/ ClockAdvance
    \/ CamPublish
    \/ SignalHandler
    \/ RunEnter
    \/ RunStartCam
    \/ RunStartEmg
    \/ RunSetRunning
    \/ RunLoopCheck
    \/ RunCapture
    \/ RunTick
    \/ RunShow
    \/ RunExcept
    \/ RunFinally
    \/ RunFinallyRaises

SpecShutdown == InitShutdown /\ [][NextShutdown]_vars

----------------------------------------------------------------------------
(* CameraInterface in detail: arrays, the ROI crop, the lock, the producer  *)
(* threads and read().  Two implementations are modelled: "opencv" is       *)
(* src/src/camera_interface.py as TrialController and main configure it     *)
(* (source 0, no CSI, no GStreamer), "picam2" is src/picam2/new.py.         *)
(*                                                                          *)
(* An array is a record: serial is the number of the capture it comes from, *)
(* order the order of its colour channels, px its pixels as a sequence of   *)
(* rows.  The pixel captured at row r, column c of capture n is <<n, r, c>>. *)
(* Variables that hold an array hold the id of an object of heap, so that   *)
(* two variables can refer to the same array.                               *)

\* Python's max and min of two numbers
Max(a, b) == IF a >= b THEN a ELSE b
Min(a, b) == IF a <= b THEN a ELSE b

\* a pixel somebody has drawn over
Ink == <<0, 0, 0>>

\* the cell of an object nothing refers to any more
Freed == [serial |-> 0, order |-> "none", px |-> <<>>]

\* the array a backend delivers for capture number serial: h rows of w pixels
NewFrame(serial, order, h, w) ==
    [serial |-> serial, order |-> order,
     px |-> [r \in 1..h |-> [c \in 1..w |-> <<serial, r, c>>]]]

\* frame.shape[:2] of an array: (rows, columns)
FrameH(px) == Len(px)
FrameW(px) == IF Len(px) = 0 THEN 0 ELSE Len(px[1])

\* seq[a:b] for 0 <= a: the elements at positions a .. b-1, as far as they exist
Slice(seq, a, b) == SubSeq(seq, a + 1, Min(b, Len(seq)))

\* frame[y:y+h, x:x+w]
Crop(px, y, h, x, w) ==
    LET rows == Slice(px, y, y + h)
    IN  [r \in 1..Len(rows) |-> Slice(rows[r], x, x + w)]

\* the clamped offset of the crop along one axis: "x = max(0, min(x, frame_w))"
\* in camera_interface.py, "x = max(0, min(x, fw - 1))" in new.py
CropOffset(v, x, frame_w) ==
    IF v = "opencv" THEN Max(0, Min(x, frame_w)) ELSE Max(0, Min(x, frame_w - 1))

\* CropExtent with a fault: the extent is clamped one pixel short
CropExtentShort(w, frame_w, x) == Max(1, Min(w, frame_w - x - 1))

\* the clamped extent of the crop along one axis: "w = max(1, min(w, frame_w - x))"
CropExtent(w, frame_w, x) == Max(1, Min(w, frame_w - x))

\* the ROI crop of the producer loop (camera_interface.py) / _apply_roi (new.py)
ApplyRoi(v, px, roi) ==
    LET frame_h == FrameH(px)
        frame_w == FrameW(px)
        x == CropOffset(v, roi[1], frame_w)
        y == CropOffset(v, roi[2], frame_h)
        w == CropExtent(roi[3], frame_w, x)
        h == CropExtent(roi[4], frame_h, y)
    IN  Crop(px, y, h, x, w)

\* cv2.cvtColor(frame, cv2.COLOR_RGB2BGR): the channels of every pixel swap ends
ToBGR(array) == [array EXCEPT !.order = IF @ = "RGB" THEN "BGR" ELSE "RGB"]

\* what the producer holds when it reaches the critical section, from the array
\* the backend delivered: the crop when an ROI is set; new.py then converts
\* the colour order, the picamera2 backend delivering RGB
Prepare(v, raw, roi) ==
    LET cropped == IF roi # NoRoi THEN [raw EXCEPT !.px = ApplyRoi(v, raw.px, roi)]
                                  ELSE raw
    IN  IF v = "picam2" THEN ToBGR(cropped) ELSE cropped

\* colour order of the arrays the backend delivers
BackendOrder(v) == IF v = "picam2" THEN "RGB" ELSE "BGR"

\* RoiAccepted with a fault: rectangles of extent 0 pass the sanity check
RoiAcceptedLoose(v, x, y, w, h) == w >= 0 /\ h >= 0 /\ (v = "opencv" => (x >= 0 /\ y >= 0))

\* the sanity check of set_roi: "if w > 0 and h > 0 and x >= 0 and y >= 0" in
\* camera_interface.py, "if w > 0 and h > 0" in new.py
RoiAccepted(v, x, y, w, h) ==
    IF v = "opencv" THEN w > 0 /\ h > 0 /\ x >= 0 /\ y >= 0
                    ELSE w > 0 /\ h > 0

\* PublishStamp with a fault: the stamp is the one taken at capture time, before
\* the lock is taken
PublishStampCaptured(v, now, captured_at) == captured_at

\* the timestamp a publish stores: camera_interface.py reads the clock inside
\* the critical section, new.py stores the reading it took right after capture
PublishStamp(v, now, captured_at) == IF v = "opencv" THEN now ELSE captured_at

\* StoredFrame with a fault: a frame already stored is kept, the new one dropped
StoredFrameKeepFirst(old, new) == IF old = NoFrame THEN new ELSE old

\* "self.frame_buffer = frame": the new frame replaces whatever was stored
StoredFrame(old, new) == new

\* AcquirableAlways: the lock with a fault, it never makes anybody wait
AcquirableAlways(l) == TRUE

\* threading.Lock: "with self.lock" enters when nobody holds the lock
Acquirable(l) == l = NoOwner

\* ReadHasFrame with a fault: read() never finds a frame
ReadHasFrameNever(fb) == FALSE

\* "if self.frame_buffer is not None" of read()
ReadHasFrame(fb) == fb # NoFrame

\* ReturnFrame with a fault: read() returns the stored array itself
ReturnFrameShared(h, id) == [heap |-> h, frame |-> id]

\* "return self.frame_buffer.copy(), ...": a new array with the same content
ReturnFrame(h, id) == [heap |-> Append(h, h[id]), frame |-> Len(h) + 1]

\* an array somebody has drawn over: every pixel is ink
InkOver(px) == [r \in 1..Len(px) |-> [c \in 1..Len(px[r]) |-> Ink]]

\* reference counting: the arrays no variable refers to are freed
Collect(h, roots) == [i \in 1..Len(h) |-> IF i \in roots THEN h[i] ELSE Freed]

Roots(fb, ths, rds) ==
    {fb} \cup {ths[t].frame : t \in DOMAIN ths} \cup {rds[i].frame : i \in DOMAIN rds}

\* the variables of the other components, which a client of the camera alone
\* leaves as they are
CameraOnly ==
    UNCHANGED <<fusion_vars, driver, config, pc, running, run_start, emg_running,
                tick, stop_calls, loop_exit, interrupted>>

\* the producer threads a camera can come to have: the one start() spawns, and
\* the one another start() call spawns beside it
Producers == {1, 2}

\* the backend start() tries to open.  camera_interface.py: the GStreamer
\* pipeline if use_gstreamer, else the CSI camera if use_csi and picamera2 could
\* be imported, else the generic capture of source unless mock_mode, else
\* nothing.  new.py: the CSI camera unless mock_mode.
BackendTried(v, mock, gst, csi, available) ==
    IF v = "picam2" THEN (IF mock THEN "none" ELSE "csi")
    ELSE IF gst THEN "gstreamer"
    ELSE IF csi /\ available THEN "csi"
    ELSE IF ~mock THEN "generic"
    ELSE "none"

\* a producer thread at the head of its loop
NewThread == [pc |-> "check", frame |-> NoFrame, ts |-> 0, origin |-> "none"]

\* CameraInterface.start; opened tells whether the backend it tries can be
\* opened.  A VideoCapture that does not open stays in cap when start raises
\* and is dropped in mock mode; a Picamera2 that cannot be set up leaves picam2
\* as it was when start raises and is dropped in mock mode.  Unless start
\* raises, running is set and one more producer thread is spawned.
start(opened) ==
    LET tried == BackendTried(variant, mock_mode, use_gstreamer, use_csi,
                              picamera2_available)
        raises == CameraStartRaises(mock_mode, opened)
        new_cap == IF opened THEN "open" ELSE IF mock_mode THEN "none" ELSE "closed"
        new_picam2 == IF opened THEN "started"
                      ELSE IF variant = "opencv" /\ mock_mode THEN "none" ELSE picam2
    IN  /\ attempted' = tried
        /\ use_csi' = IF tried = "gstreamer" THEN TRUE ELSE use_csi
        /\ cap' = IF tried \in {"gstreamer", "generic"} THEN new_cap ELSE cap
        /\ picam2' = IF tried = "csi" THEN new_picam2 ELSE picam2
        /\ releases' = IF \/ tried \in {"gstreamer", "generic"}
                          \/ tried = "csi" /\ (opened \/ (variant = "opencv" /\ mock_mode))
                       THEN 0 ELSE releases
        /\ cam_raised' = IF raises THEN "error" ELSE "none"
        /\ IF raises
           THEN UNCHANGED <<cam_running, threads>>
           ELSE /\ cam_running' = TRUE
                /\ threads' = Append(threads, NewThread)
        /\ UNCHANGED <<source, use_gstreamer, picamera2_available, cam_pc, cam_stops,
                       misses>>

\* the first part of stop(): "self.running = False"; the caller then waits in
\* "self.thread.join(timeout=1.0)"
StopRunning ==
    /\ cam_running' = FALSE
    /\ cam_pc' = "join"

\* the rest of stop(), once the join has returned (the thread has ended or the
\* second has passed): the handles the camera holds are released.
\* camera_interface.py keeps the released handles in cap and picam2; new.py
\* sets picam2 to None.
ReleaseBackend ==
    /\ cap' = IF cap # "none" THEN "closed" ELSE cap
    /\ picam2' = IF picam2 = "none" \/ variant = "picam2" THEN "none" ELSE "closed"
    /\ releases' = releases + (IF cap # "none" THEN 1 ELSE 0)
                             + (IF picam2 # "none" THEN 1 ELSE 0)
    /\ cam_stops' = cam_stops + 1
    /\ cam_pc' = "idle"

\* CameraInterface.set_roi
set_roi(x, y, w, h) ==
    IF RoiAccepted(variant, x, y, w, h)
    THEN /\ roi_bounds' = <<x, y, w, h>>
         /\ roi_ignored' = FALSE
    ELSE /\ roi_ignored' = TRUE
         /\ UNCHANGED roi_bounds

\* _capture_loop, "while self.running:"
ProducerCheck ==
    /\ \E t \in DOMAIN threads :
          /\ threads[t].pc = "check"
          /\ threads' = [threads EXCEPT ![t].pc = IF cam_running THEN "capture" ELSE "done"]
    /\ UNCHANGED <<clock, cam_running, frame_buffer, timestamp_buffer, variant, mock_mode,
                   width, height, roi_bounds, lock, heap, captures, roi_ignored,
                   published, reads>>
    /\ UNCHANGED backend_vars
    /\ CameraOnly

\* CaptureStrategy with a fault: camera_interface.py has no synthetic generator
CaptureStrategyNoFallback(v, mock, cam, capture) ==
    IF v = "picam2" THEN (IF mock THEN "synthetic" ELSE "csi")
    ELSE IF cam # "none" THEN "csi"
    ELSE IF capture = "open" THEN "capture"
    ELSE "none"

\* CaptureStrategy with a fault: in mock mode the synthetic generator is used
\* even when a backend is held
CaptureStrategySyntheticFirst(v, mock, cam, capture) ==
    IF mock THEN "synthetic"
    ELSE IF v = "picam2" \/ cam # "none" THEN "csi"
    ELSE IF capture = "open" THEN "capture"
    ELSE "none"

\* the capture strategy one pass of the loop takes.  camera_interface.py: the
\* CSI camera if picam2 is set, else the capture if cap is set and opened, else
\* the synthetic generator if mock_mode, else none (frame stays None).
\* new.py: the synthetic generator if mock_mode, else the CSI camera.
CaptureStrategy(v, mock, cam, capture) ==
    IF v = "picam2" THEN (IF mock THEN "synthetic" ELSE "csi")
    ELSE IF cam # "none" THEN "csi"
    ELSE IF capture = "open" THEN "capture"
    ELSE IF mock THEN "synthetic"
    ELSE "none"

\* the attempt can deliver an array: np.random.randint and an opened capture
\* can, capture_array() only on a started camera
Delivers(strategy, cam) ==
    \/ strategy \in {"synthetic", "capture"}
    \/ strategy = "csi" /\ cam = "started"

\* the attempt can fail: capture_array() raises, cap.read() returns ret False,
\* or there is nothing to capture from; the synthetic generator cannot fail
CanFail(strategy) == strategy # "synthetic"

\* AfterFailure with a fault: a failed attempt ends the producer loop
AfterFailureExit(strategy) == "done"

\* where the thread goes after a failed attempt: back to the head of the loop
\* ("continue", or on through the skipped publish and time.sleep(0.001))
AfterFailure(strategy) == "check"

\* how far the failed attempts in a row are counted, by client
MissLimit == IF driver = "operator" THEN MaxMisses ELSE 0

\* _capture_loop from the capture attempt to the critical section.  The backend
\* delivers an array (the synthetic generator always does), which is cropped
\* and, in new.py, converted; or the attempt fails and the loop starts over
\* with nothing stored.  ts is the clock reading at capture time, which new.py
\* keeps for the publish.
ProducerCapture ==
    /\ \E t \in DOMAIN threads :
          /\ threads[t].pc = "capture"
          /\ LET strategy == CaptureStrategy(variant, mock_mode, picam2, cap)
             IN  \/ /\ Delivers(strategy, picam2)
                    /\ captures < MaxCaptures
                    /\ captures' = captures + 1
                    /\ heap' = Append(heap,
                                  Prepare(variant,
                                          NewFrame(captures + 1, BackendOrder(variant),
                                                   height, width),
                                          roi_bounds))
                    /\ threads' = [threads EXCEPT ![t] =
                                      [pc |-> "publish", frame |-> Len(heap) + 1,
                                       ts |-> clock, origin |-> strategy]]
                    /\ misses' = 0
                 \/ /\ CanFail(strategy)
                    /\ threads' = [threads EXCEPT ![t].pc = AfterFailure(strategy)]
                    /\ misses' = Min(misses + 1, MissLimit)
                    /\ UNCHANGED <<heap, captures>>
    /\ UNCHANGED <<clock, cam_running, frame_buffer, timestamp_buffer, variant, mock_mode,
                   width, height, roi_bounds, lock, roi_ignored, published, reads>>
    /\ UNCHANGED <<source, use_csi, use_gstreamer, picamera2_available, cap, picam2,
                   cam_pc, cam_raised, attempted, releases, cam_stops>>
    /\ CameraOnly

\* "with self.lock:" is entered and the frame is stored; the array stored
\* before is freed unless somebody else refers to it
ProducerStoreFrame ==
    /\ \E t \in DOMAIN threads :
          /\ threads[t].pc = "publish"
          /\ Acquirable(lock)
          /\ lock' = t
          /\ frame_buffer' = StoredFrame(frame_buffer, threads[t].frame)
          /\ threads' = [threads EXCEPT ![t].pc = "store_ts"]
          /\ heap' = Collect(heap, Roots(frame_buffer', threads, reads))
    /\ UNCHANGED <<clock, cam_running, timestamp_buffer, variant, mock_mode, width, height,
                   roi_bounds, captures, roi_ignored, published, reads>>
    /\ UNCHANGED backend_vars
    /\ CameraOnly

\* the timestamp is stored and the lock released: the publish is complete.  The
\* thread goes back to the head of its loop (after time.sleep(0.001) in
\* camera_interface.py).
ProducerStoreTs ==
    /\ \E t \in DOMAIN threads :
          /\ threads[t].pc = "store_ts"
          /\ LET stamp == PublishStamp(variant, clock, threads[t].ts)
             IN  /\ timestamp_buffer' = stamp
                 /\ published' = Append(published,
                                    [serial |-> heap[threads[t].frame].serial,
                                     ts |-> stamp, thread |-> t,
                                     origin |-> threads[t].origin])
          /\ lock' = NoOwner
          /\ threads' = [threads EXCEPT ![t] = NewThread]
    /\ UNCHANGED <<clock, cam_running, frame_buffer, variant, mock_mode, width, height,
                   roi_bounds, heap, captures, roi_ignored, reads>>
    /\ UNCHANGED backend_vars
    /\ CameraOnly

\* CameraInterface.read, called by the client thread.  latest is the number of
\* publishes completed when the call is made.
CamRead ==
    /\ driver = "reader"
    /\ Len(reads) < MaxReads
    /\ Acquirable(lock)
    /\ IF ReadHasFrame(frame_buffer)
       THEN LET r == ReturnFrame(heap, frame_buffer)
            IN  /\ heap' = r.heap
                /\ reads' = Append(reads,
                               [frame |-> r.frame, ts |-> timestamp_buffer,
                                content |-> heap[frame_buffer],
                                latest |-> Len(published), modified |-> FALSE])
       ELSE /\ reads' = Append(reads,
                           [frame |-> NoFrame, ts |-> 0, content |-> Freed,
                            latest |-> Len(published), modified |-> FALSE])
            /\ UNCHANGED heap
    /\ UNCHANGED <<clock, cam_running, frame_buffer, timestamp_buffer, variant, mock_mode,
                   width, height, roi_bounds, lock, threads, captures, roi_ignored,
                   published>>
    /\ UNCHANGED backend_vars
    /\ CameraOnly

\* the client draws on a frame read() returned to it (cv2.putText(frame, ...)
\* of main)
ConsumerDraw ==
    /\ driver = "reader"
    /\ \E i \in DOMAIN reads :
          /\ reads[i].frame # NoFrame
          /\ ~reads[i].modified
          /\ heap' = [heap EXCEPT ![reads[i].frame].px = InkOver(@)]
          /\ reads' = [reads EXCEPT ![i].modified = TRUE]
    /\ UNCHANGED <<clock, cam_running, frame_buffer, timestamp_buffer, variant, mock_mode,
                   width, height, roi_bounds, lock, threads, captures, roi_ignored,
                   published>>
    /\ UNCHANGED backend_vars
    /\ CameraOnly

\* the reading client calls start(), possibly more than once
ReaderStart ==
    /\ driver = "reader"
    /\ Len(threads) < Cardinality(Producers)
    /\ \E opened \in BOOLEAN : start(opened)
    /\ UNCHANGED <<clock, frame_buffer, timestamp_buffer, variant, mock_mode, width,
                   height, roi_bounds, lock, heap, captures, roi_ignored, published,
                   reads>>
    /\ CameraOnly

\* the clock of a client of the camera
CameraClock ==
    /\ driver = "reader"
    /\ clock < ClockLimit
    /\ clock' = clock + 1
    /\ UNCHANGED <<fusion_vars, trial_vars, camera_vars>>

\* offsets and extents a client passes to set_roi
RoiOffsets == -1..MaxDim
RoiExtents == 0..(MaxDim + 1)

\* the cropping client configures the ROI before it starts the camera
CropperSetRoi ==
    /\ driver = "cropper"
    /\ Len(threads) = 0
    /\ \E x \in RoiOffsets, y \in RoiOffsets, w \in RoiExtents, h \in RoiExtents :
          set_roi(x, y, w, h)
    /\ UNCHANGED <<clock, cam_running, frame_buffer, timestamp_buffer, variant, mock_mode,
                   width, height, lock, threads, heap, captures, published, reads>>
    /\ UNCHANGED backend_vars
    /\ CameraOnly

\* the cropping client calls start() once
CropperStart ==
    /\ driver = "cropper"
    /\ Len(threads) = 0
    /\ \E opened \in BOOLEAN : start(opened)
    /\ UNCHANGED <<clock, frame_buffer, timestamp_buffer, variant, mock_mode, width,
                   height, roi_bounds, lock, heap, captures, roi_ignored, published,
                   reads>>
    /\ CameraOnly

\* A client that starts a camera of 1 x 1 frames and reads from it while the
\* producer threads run.  The camera is a real one (mock_mode false): its
\* start() can raise and its capture attempts can fail or deliver a frame,
\* while the synthetic generator of mock mode always delivers one.
InitCamera ==
    /\ clock = 1
    /\ FusionInit(clock)
    /\ driver = "reader"
    /\ TrialIdle
    /\ \E v \in {"opencv", "picam2"} : CameraNew(v, FALSE, 1, 1)

NextCamera ==
    \/ CameraClock
    \/ ReaderStart
    \/ ProducerCheck
    \/ ProducerCapture
    \/ ProducerStoreFrame
    \/ ProducerStoreTs
    \/ CamRead
    \/ ConsumerDraw

SpecCamera == InitCamera /\ [][NextCamera]_vars

\* A client that sets the ROI of a camera of any frame size and then starts it.
InitRoi ==
    /\ clock = 1
    /\ FusionInit(clock)
    /\ driver = "cropper"
    /\ TrialIdle
    /\ \E v \in {"opencv", "picam2"}, mock \in BOOLEAN, w \in 1..MaxDim, h \in 1..MaxDim :
          CameraNew(v, mock, w, h)

NextRoi ==
    \/ CropperSetRoi
    \/ CropperStart
    \/ ProducerCheck
    \/ ProducerCapture
    \/ ProducerStoreFrame
    \/ ProducerStoreTs

SpecRoi == InitRoi /\ [][NextRoi]_vars

\* A client that runs the life cycle of a camera: it calls start() and stop()
\* in any order while the producer threads run.
OperatorStart ==
    /\ driver = "operator"
    /\ cam_pc = "idle"
    /\ Len(threads) < Cardinality(Producers)
    /\ \E opened \in BOOLEAN : start(opened)
    /\ UNCHANGED <<clock, frame_buffer, timestamp_buffer, variant, mock_mode, width,
                   height, roi_bounds, lock, heap, captures, roi_ignored, published,
                   reads>>
    /\ CameraOnly

\* stop() is called: running is cleared and the caller waits for the thread
OperatorStop ==
    /\ driver = "operator"
    /\ cam_pc = "idle"
    /\ cam_stops < MaxStops
    /\ StopRunning
    /\ UNCHANGED <<clock, frame_buffer, timestamp_buffer, variant, mock_mode, width,
                   height, roi_bounds, lock, threads, heap, captures, roi_ignored,
                   published, reads>>
    /\ UNCHANGED <<source, use_csi, use_gstreamer, picamera2_available, cap, picam2,
                   cam_raised, attempted, releases, cam_stops, misses>>
    /\ CameraOnly

\* the join of stop() returns, the handles are released and stop() returns
OperatorStopReturn ==
    /\ driver = "operator"
    /\ cam_pc = "join"
    /\ ReleaseBackend
    /\ UNCHANGED <<clock, cam_running, frame_buffer, timestamp_buffer, variant, mock_mode,
                   width, height, roi_bounds, lock, threads, heap, captures, roi_ignored,
                   published, reads>>
    /\ UNCHANGED <<source, use_csi, use_gstreamer, picamera2_available, cam_raised,
                   attempted, misses>>
    /\ CameraOnly

\* The cameras such a client can construct: camera_interface.py with any
\* source, mode and backend flags, on a machine with or without picamera2;
\* new.py, which has the mode only.
InitBackend ==
    /\ clock = 1
    /\ FusionInit(clock)
    /\ driver = "operator"
    /\ TrialIdle
    /\ \/ /\ picamera2_available \in BOOLEAN
          /\ \E src \in {"index", "file"}, mock \in BOOLEAN, csi \in BOOLEAN,
                gst \in BOOLEAN :
                CameraInit("opencv", src, 1, 1, mock, csi, gst)
       \/ /\ picamera2_available = TRUE
          /\ \E mock \in BOOLEAN : CameraInit("picam2", "index", 1, 1, mock, FALSE, FALSE)

NextBackend ==
    \/ OperatorStart
    \/ OperatorStop
    \/ OperatorStopReturn
    \/ ProducerCheck
    \/ ProducerCapture
    \/ ProducerStoreFrame
    \/ ProducerStoreTs

SpecBackend == InitBackend /\ [][NextBackend]_vars

\* a step of a producer thread
ProducerStep ==
    ProducerCheck \/ ProducerCapture \/ ProducerStoreFrame \/ ProducerStoreTs

\* The same client with producer threads that keep being scheduled.
SpecBackendLive == InitBackend /\ [][NextBackend]_vars /\ WF_vars(ProducerStep)

----------------------------------------------------------------------------
(* Claims about FusionEngine, checked under SpecFusion. *)

\* the cells of the k-th data row of the log
RowCells(k) == csv_rows[k + 1].cells

\* the row ingest builds from the recorded call c
RowOfCall(c) ==
    MakeRow(c.ts_now, c.trial_time, c.vision_result, c.emg_sample, c.grip_sample)

\* C1: after N ingest calls on the open engine the log is the header row,
\* written first and once, followed by exactly N data rows, the k-th row being
\* the record of the k-th call.
C1_LogIsHeaderThenCallRows ==
    /\ Len(csv_rows) = 1 + Len(calls)
    /\ csv_rows[1].kind = "header"
    /\ csv_rows[1].cells = Header
    /\ \A k \in 1..Len(calls) :
          /\ csv_rows[k + 1].kind = "row"
          /\ RowCells(k) = RowOfCall(calls[k])

\* C1 witness: two calls were logged, the first with a detection, the second without.
C1_Witness ==
    /\ Len(calls) >= 2
    /\ Len(csv_rows) >= 3
    /\ calls[1].vision_result.present
    /\ ~calls[2].vision_result.present

\* C2 as claimed: the trial_time_s of each row is strictly greater than that of
\* the row before it.
C2_TrialTimeStrictlyIncreasing ==
    \A k \in 1..(Len(csv_rows) - 2) : RowCells(k + 1)[2] > RowCells(k)[2]

\* C2 as amended: the trial_time_s of each row is never smaller than that of the
\* row before it, and it is strictly greater whenever the elapsed times of the
\* two calls differ by more than 0.0001 s.
C2_TrialTimeNonDecreasing ==
    \A k \in 1..(Len(csv_rows) - 2) :
        /\ RowCells(k + 1)[2] >= RowCells(k)[2]
        /\ calls[k + 1].trial_time - calls[k].trial_time > TicksPer1e4
              => RowCells(k + 1)[2] > RowCells(k)[2]

\* C2 witness: the clock advanced between two consecutive calls and both rows
\* carry the same trial_time_s.
C2_Witness ==
    \E k \in 1..(Len(csv_rows) - 2) :
        /\ calls[k + 1].trial_time > calls[k].trial_time
        /\ RowCells(k + 1)[2] = RowCells(k)[2]

\* C3 as claimed: the timestamp_ns of each row is strictly greater than that of
\* the row before it.
C3_TimestampStrictlyIncreasing ==
    \A k \in 1..(Len(csv_rows) - 2) : RowCells(k + 1)[1] > RowCells(k)[1]

\* C3 as amended: the timestamp_ns of each row is never smaller than that of the
\* row before it.
C3_TimestampNonDecreasing ==
    \A k \in 1..(Len(csv_rows) - 2) : RowCells(k + 1)[1] >= RowCells(k)[1]

\* C3 witness: two consecutive rows carry the same timestamp_ns.
C3_Witness ==
    \E k \in 1..(Len(csv_rows) - 2) : RowCells(k + 1)[1] = RowCells(k)[1]

\* C4: an ingest call without a detection returns whenever the log is open, and
\* its row has hand_visible 0, handedness "None", confidence 0, the three index
\* angles 0, and the rounded emg and grip values of that same call.
C4_AbsentRowDefaults ==
    /\ raised # "none" => csv_closed
    /\ \A k \in 1..Len(calls) :
          ~calls[k].vision_result.present =>
              /\ RowCells(k)[3] = 0
              /\ RowCells(k)[4] = "None"
              /\ RowCells(k)[5] = 0
              /\ RowCells(k)[6] = 0
              /\ RowCells(k)[7] = 0
              /\ RowCells(k)[8] = 0
              /\ RowCells(k)[9] = PyRound(calls[k].emg_sample[2], TicksPer1e2)
              /\ RowCells(k)[10] = PyRound(calls[k].grip_sample, TicksPer1e2)

\* C4 witness: a call with a flexed hand is followed by a call without detection
\* whose sensor values differ from those of the first call.
C4_Witness ==
    /\ Len(calls) >= 2
    /\ Len(csv_rows) >= 3
    /\ calls[1].vision_result.present
    /\ RowCells(1)[6] > 0
    /\ ~calls[2].vision_result.present
    /\ RowCells(2)[9] # RowCells(1)[9]
    /\ RowCells(2)[10] # RowCells(1)[10]

\* C5 as claimed: once close() has been called, a further close() is a no-op:
\* the content of the summary stays what the first close() wrote.
C5_SecondCloseIsNoOp ==
    [][close_calls >= 1 => summary' = summary]_vars

----------------------------------------------------------------------------
(* Claims about the trial loop, checked under SpecTrial. *)

C7_NoTickAfterInterrupt ==
    [][(driver = "controller" /\ interrupted /\ pc = "loop") => pc' # "capture"]_vars

\* C8 as claimed: whenever run() has ended, by returning or by raising, the log
\* is closed and the summary is written.
C8_RunEndsWithClosedLog ==
    (driver = "controller" /\ pc \in {"stopped", "failed"}) =>
        (csv_closed /\ summary # NoSummary)

\* C9 as claimed: a pose-estimation call that raises in a tick does not end the
\* loop of TrialController.run().
C9_FailingReadNotFatal ==
    ~(driver = "controller" /\ tick.raised = "pose" /\ loop_exit = "exception")

\* C10 as claimed: after a camera read that returned no frame, the iteration has
\* read no sensor, called no pose estimation and ingested no record, and control
\* is not inside the iteration any more.
C10_NoFrameTickDoesNothing ==
    (tick.frame_read /\ tick.frame = NoFrame) =>
        /\ ~tick.emg_read
        /\ ~tick.grip_read
        /\ ~tick.pose_called
        /\ ~tick.ingested
        /\ pc \notin TickPcs

\* C10 as amended: after a camera read that returned no frame, the iteration has
\* called no pose estimation and ingested no record, and control is not inside
\* the iteration any more; in TrialController.run() it has read no sensor
\* either, while main of run_trial.py has read the EMG and the grip source
\* before it looks at the frame.
C10_NoFrameTickSkipped ==
    (tick.frame_read /\ tick.frame = NoFrame) =>
        /\ ~tick.pose_called
        /\ ~tick.ingested
        /\ pc \notin TickPcs
        /\ driver = "controller" => (~tick.emg_read /\ ~tick.grip_read)
        /\ driver = "script" => (tick.emg_read /\ tick.grip_read)

\* C10 witness: the controller has read the camera, got no frame, and is back at
\* the loop head with nothing logged.
C10_Witness ==
    /\ driver = "controller"
    /\ pc = "loop"
    /\ tick.frame_read
    /\ tick.frame = NoFrame
    /\ Len(csv_rows) = 1

\* C11: in an iteration whose camera read returned a frame, the step in which
\* pose estimation returns, with a detection or with nothing, appends exactly
\* one record to the log; the log grows by one record at a time, and only once
\* in an iteration.
C11_OneRecordPerFrameTick ==
    [][ /\ (/\ tick.frame_read /\ tick.frame # NoFrame
            /\ ~tick.pose_called /\ tick'.pose_called /\ tick'.raised = "none")
           => (Len(csv_rows') = Len(csv_rows) + 1 /\ tick'.ingested)
        /\ Len(csv_rows') # Len(csv_rows)
           => (/\ tick.frame # NoFrame /\ ~tick.ingested /\ tick'.ingested
               /\ Len(csv_rows') = Len(csv_rows) + 1)
        /\ (tick.ingested /\ tick'.ingested) => csv_rows' = csv_rows ]_vars

\* C11 witness: the controller logged a first iteration with a detection and a
\* second one in which pose estimation returned nothing.
C11_Witness ==
    /\ driver = "controller"
    /\ pc = "show"
    /\ tick.frame # NoFrame
    /\ tick.ingested
    /\ Len(calls) = 2
    /\ calls[1].vision_result.present
    /\ ~calls[2].vision_result.present
    /\ Len(csv_rows) = 3

\* C12 as claimed, its last part: no ingest call is made at a moment when the
\* time elapsed since the loop started has reached the configured duration.
C12_NoIngestAfterDuration ==
    [][Len(calls') > Len(calls) => clock - run_start < config.duration]_vars

\* C12 as amended: an iteration begins only when the check at the loop head
\* finds the elapsed time below the configured duration, and, with a clock
\* that advances and a main thread that keeps running, a loop whose duration
\* ends within the modelled time is left, whether or not the camera ever
\* publishes a frame.
C12_LoopEndsAtDuration ==
    /\ [][(pc = "loop" /\ pc' = "capture") => clock - run_start < config.duration]_vars
    /\ (pc = "loop" /\ run_start + config.duration <= ClockLimit)
           ~> (pc \in {"finally", "stopped"})

\* C12 witness: run() has returned because the duration was reached, and the
\* camera never published a frame: every iteration was skipped.
C12_Witness ==
    /\ driver = "controller"
    /\ pc = "stopped"
    /\ loop_exit = "duration"
    /\ frame_buffer = NoFrame
    /\ tick.frame_read
    /\ Len(calls) = 0

----------------------------------------------------------------------------
(* Claims about CameraInterface, checked under SpecCamera. *)

\* C13: a read() made before any publish was complete returned (None, 0), and
\* a read() made once a publish was complete returned a frame.
C13_ReadNoneThenFrames ==
    \A i \in DOMAIN reads :
        /\ reads[i].latest = 0 => (reads[i].frame = NoFrame /\ reads[i].ts = 0)
        /\ reads[i].latest >= 1 => reads[i].frame # NoFrame

\* C13 witness: the first read() came before the first publish and returned
\* nothing, the second came after it and returned a frame.
C13_Witness ==
    /\ Len(reads) = 2
    /\ reads[1].latest = 0
    /\ reads[1].frame = NoFrame
    /\ reads[2].latest >= 1
    /\ reads[2].frame # NoFrame

\* C14 as claimed: the timestamp of every publish is strictly greater than the
\* timestamp of the publish before it.
C14_StampsStrictlyIncreasing ==
    \A k \in 1..(Len(published) - 1) : published[k + 1].ts > published[k].ts

\* C14 as amended: the timestamp of a publish is never smaller than that of the
\* previous publish of the same producer thread; in camera_interface.py, which
\* reads the clock inside the critical section, it is never smaller than that
\* of the previous publish of any thread.
C14_StampsNonDecreasing ==
    \A j \in DOMAIN published : \A k \in DOMAIN published :
        (j < k /\ (variant = "opencv" \/ published[j].thread = published[k].thread))
            => published[j].ts <= published[k].ts

\* C14 witness: two publishes of one thread carry the same timestamp.
C14_Witness ==
    /\ Len(published) = 2
    /\ published[1].thread = published[2].thread
    /\ published[1].ts = published[2].ts

\* C15: every read() that returned a frame returned the frame and the timestamp
\* of one and the same publish, the last one completed before the call.
C15_ReadReturnsPublishedPair ==
    \A i \in DOMAIN reads :
        reads[i].frame # NoFrame =>
            /\ reads[i].latest >= 1
            /\ reads[i].content.serial = published[reads[i].latest].serial
            /\ reads[i].ts = published[reads[i].latest].ts

\* C15 witness: a read() was made after a second frame had been published, at
\* a later clock reading than the first, and returned that frame with its
\* timestamp.
C15_Witness ==
    /\ Len(published) = 2
    /\ published[2].ts > published[1].ts
    /\ \E i \in DOMAIN reads :
          /\ reads[i].latest = 2
          /\ reads[i].content.serial = published[2].serial
          /\ reads[i].ts = published[2].ts

\* C16: in camera_interface.py, every read() returns the frame of the last
\* publish completed before the call, however many publishes came since the
\* previous read(), and the timestamps successive read() calls return never
\* decrease.
C16_LatestWins ==
    variant = "opencv" =>
        /\ \A i \in DOMAIN reads :
              reads[i].frame # NoFrame =>
                  /\ reads[i].latest >= 1
                  /\ reads[i].content.serial = published[reads[i].latest].serial
        /\ \A i \in 1..(Len(reads) - 1) :
              /\ reads[i].latest <= reads[i + 1].latest
              /\ reads[i].ts <= reads[i + 1].ts

\* C16 witness: two frames were published between two read() calls; the second
\* read() returned the later one.
C16_Witness ==
    /\ variant = "opencv"
    /\ Len(reads) = 2
    /\ reads[1].latest = 0
    /\ reads[2].latest = 2
    /\ reads[2].content.serial = published[2].serial
    /\ published[1].serial # published[2].serial

\* C17: a frame read() returned and its caller has not drawn on is still as it
\* was returned; the stored frame is never one a consumer has drawn on, and no
\* read() returned a frame that had been drawn on.
C17_ReturnedFrameIsPrivate ==
    /\ \A i \in DOMAIN reads :
          (reads[i].frame # NoFrame /\ ~reads[i].modified)
              => heap[reads[i].frame] = reads[i].content
    /\ frame_buffer # NoFrame =>
          \A r \in DOMAIN heap[frame_buffer].px :
              \A c \in DOMAIN heap[frame_buffer].px[r] :
                  heap[frame_buffer].px[r][c] # Ink
    /\ \A i \in DOMAIN reads :
          \A r \in DOMAIN reads[i].content.px :
              \A c \in DOMAIN reads[i].content.px[r] :
                  reads[i].content.px[r][c] # Ink

\* C17 witness: the consumer drew on the frame its first read() returned, the
\* producer published another frame, and a second read() returned that one.
C17_Witness ==
    /\ Len(reads) = 2
    /\ reads[1].frame # NoFrame
    /\ reads[1].modified
    /\ reads[2].frame # NoFrame
    /\ ~reads[2].modified
    /\ reads[2].content.serial # reads[1].content.serial

----------------------------------------------------------------------------
(* Claims about the ROI of CameraInterface, checked under SpecRoi. *)

\* C18 as claimed: every frame the producer has cropped, stored or about to be
\* stored, is at least one pixel high and one pixel wide, and each of its
\* pixels is a pixel of the captured frame.
C18_CropNonEmptyInside ==
    \A id \in (Roots(frame_buffer, threads, reads) \ {NoFrame}) :
        LET px == heap[id].px
        IN  /\ FrameH(px) >= 1
            /\ FrameW(px) >= 1
            /\ \A r \in DOMAIN px : \A c \in DOMAIN px[r] :
                  /\ px[r][c][1] = heap[id].serial
                  /\ px[r][c][2] \in 1..height
                  /\ px[r][c][3] \in 1..width

\* C19: with the ROI set to (0, 0, width, height), the stored frame has the
\* pixels of the captured frame, all of them and in place; in
\* camera_interface.py it is the captured array unchanged.
C19_FullRoiIsNoOp ==
    (roi_bounds = <<0, 0, width, height>> /\ frame_buffer # NoFrame) =>
        /\ heap[frame_buffer].px
              = NewFrame(heap[frame_buffer].serial, "BGR", height, width).px
        /\ variant = "opencv" =>
              heap[frame_buffer]
                  = NewFrame(heap[frame_buffer].serial, BackendOrder(variant), height, width)

\* C19 witness: camera_interface.py has published a frame of the largest size
\* with the ROI set to the whole frame.
C19_Witness ==
    /\ variant = "opencv"
    /\ width = MaxDim
    /\ height = MaxDim
    /\ roi_bounds = <<0, 0, width, height>>
    /\ frame_buffer # NoFrame
    /\ FrameW(heap[frame_buffer].px) = MaxDim

\* C20 as claimed: a set_roi call that is ignored leaves roi_bounds as it was,
\* and no rectangle with w <= 0, h <= 0, x < 0 or y < 0 is ever stored.
C20_InvalidRoiIgnored ==
    [][ /\ roi_ignored' => roi_bounds' = roi_bounds
        /\ roi_bounds' # roi_bounds
           => (/\ roi_bounds'[3] > 0 /\ roi_bounds'[4] > 0
               /\ roi_bounds'[1] >= 0 /\ roi_bounds'[2] >= 0) ]_vars

\* C20 as amended: a set_roi call that is ignored leaves roi_bounds as it was;
\* no rectangle with w <= 0 or h <= 0 is ever stored, and in
\* camera_interface.py none with x < 0 or y < 0 either, while new.py stores a
\* rectangle with a negative x or y; and the frames published afterwards are
\* cropped by the ROI in effect, or not at all when there is none.
C20_NonPositiveExtentIgnored ==
    /\ [][ /\ roi_ignored' => roi_bounds' = roi_bounds
           /\ roi_bounds' # roi_bounds
              => (/\ roi_bounds'[3] > 0 /\ roi_bounds'[4] > 0
                  /\ variant = "opencv" => (roi_bounds'[1] >= 0 /\ roi_bounds'[2] >= 0)) ]_vars
    /\ [](frame_buffer # NoFrame =>
             heap[frame_buffer].px =
                 IF roi_bounds = NoRoi
                 THEN NewFrame(heap[frame_buffer].serial, "BGR", height, width).px
                 ELSE ApplyRoi(variant,
                               NewFrame(heap[frame_buffer].serial, "BGR", height, width).px,
                               roi_bounds))

\* C20 witness: camera_interface.py ignored a set_roi call made after one it
\* had accepted, and has since published a frame.
C20_Witness ==
    /\ variant = "opencv"
    /\ roi_ignored
    /\ roi_bounds # NoRoi
    /\ frame_buffer # NoFrame

----------------------------------------------------------------------------
(* Claims about the backends of CameraInterface, its start() and stop(),   *)
(* checked under SpecBackend and SpecBackendLive.                          *)

\* C21 as claimed: whatever start() and stop() calls are made, the backend
\* handle the camera holds (the capture or the CSI camera) has been released
\* at most once: a second stop() does not release it again.
C21_BackendReleasedOnce == releases <= 1

\* the backend the configuration selects
SelectedBackend ==
    IF variant = "picam2" THEN "csi"
    ELSE IF use_gstreamer THEN "gstreamer"
    ELSE IF use_csi THEN "csi"
    ELSE "generic"

\* the handle of backend b is open
BackendOpen(b) ==
    IF b = "csi" THEN picam2 = "started"
    ELSE IF b \in {"gstreamer", "generic"} THEN cap = "open"
    ELSE FALSE

\* C22 as claimed: off mock mode, a start() call that spawns a producer thread
\* has opened the backend the configuration selects, and a start() call whose
\* backend does not open raises, spawns no thread and leaves running False.
C22_FailedOpenRaises ==
    [][ /\ (~mock_mode /\ Len(threads') > Len(threads)) => BackendOpen(SelectedBackend)'
        /\ (~mock_mode /\ cam_pc = "idle" /\ start(FALSE))
              => (cam_raised' = "error" /\ threads' = threads /\ ~cam_running') ]_vars

\* C22 as amended: off mock mode, a start() call that spawns a producer thread
\* has opened the backend it tried, and a start() call whose backend does not
\* open raises, spawns no thread and leaves running as it was; the backend
\* tried is the generic capture of source when the CSI camera is selected in
\* camera_interface.py and picamera2 could not be imported.
C22_FailedOpenRaisesUnlessCsiMissing ==
    /\ [][ /\ (~mock_mode /\ Len(threads') > Len(threads)) => BackendOpen(attempted)'
           /\ (~mock_mode /\ cam_pc = "idle" /\ start(FALSE))
                 => (cam_raised' = "error" /\ UNCHANGED <<threads, cam_running>>) ]_vars
    /\ []((/\ variant = "opencv" /\ ~mock_mode /\ use_csi /\ ~use_gstreamer
           /\ ~picamera2_available /\ (cam_raised = "error" \/ Len(threads) > 0))
              => (attempted = "generic" /\ picam2 = "none"))

\* C22 witness: with the CSI camera selected and picamera2 missing, start()
\* tried the generic capture, which did not open: it raised, no thread exists
\* and running is False.
C22_Witness ==
    /\ variant = "opencv"
    /\ ~mock_mode
    /\ use_csi
    /\ attempted = "generic"
    /\ cap = "closed"
    /\ cam_raised = "error"
    /\ Len(threads) = 0
    /\ ~cam_running
    /\ cam_stops = 0

\* C23: in mock mode start() never raises; a start() call whose backend does
\* not open spawns a producer thread, sets running and leaves no handle; the
\* synthetic frames a producer holds are height x width; and once the camera
\* runs in mock mode without a handle, a frame is stored (read() then returns
\* it) unless the camera is stopped or a later start() opens a backend.
C23_MockFallsBackToSynthetic ==
    /\ [](mock_mode => cam_raised = "none")
    /\ [][ (mock_mode /\ cam_pc = "idle" /\ start(FALSE))
              => /\ Len(threads') = Len(threads) + 1
                 /\ cam_running'
                 /\ cap' = "none"
                 /\ picam2' = "none" ]_vars
    /\ [](\A t \in DOMAIN threads :
             threads[t].origin = "synthetic" =>
                 /\ FrameH(heap[threads[t].frame].px) = height
                 /\ FrameW(heap[threads[t].frame].px) = width)
    /\ (mock_mode /\ cam_running /\ Len(threads) > 0 /\ cap = "none" /\ picam2 = "none")
          ~> (frame_buffer # NoFrame \/ ~cam_running \/ cap # "none" \/ picam2 # "none")

\* C23 witness: in mock mode the hardware backend start() tried did not open,
\* and a synthetic frame has been published since.
C23_Witness ==
    /\ mock_mode
    /\ attempted \in {"gstreamer", "csi"}
    /\ cap = "none"
    /\ picam2 = "none"
    /\ cam_raised = "none"
    /\ frame_buffer # NoFrame
    /\ Len(published) > 0
    /\ published[Len(published)].origin = "synthetic"

C30_MockTriesSourceFirst ==
    (/\ variant = "opencv" /\ mock_mode /\ ~use_csi /\ ~use_gstreamer
     /\ Len(threads) > 0)
        => attempted = "generic"

----------------------------------------------------------------------------
(* Claims about the summary, the header and the angles, checked under      *)
(* SpecFusion.                                                             *)

\* C25: whenever summary.json exists, its total_frames is the number of data
\* rows in the log, and its avg_fps is total_frames / duration_sec, or 0 when
\* duration_sec is 0.
C25_SummaryCountsRows ==
    summary # NoSummary =>
        LET s == summary[1]
        IN  /\ s.total_frames = Len(csv_rows) - 1
            /\ s.avg_fps = IF s.duration_sec = 0 THEN <<0, 1>>
                           ELSE <<s.total_frames, s.duration_sec>>

\* C25 witness: close() was called after two ingest calls and some time.
C25_Witness ==
    /\ summary # NoSummary
    /\ summary[1].total_frames = 2
    /\ summary[1].duration_sec > 0
    /\ Len(csv_rows) = 3

\* the ten columns the header must hold according to the claim, and the ten it
\* holds
ClaimedColumns ==
    <<"timestamp_ns", "trial_time_s", "hand_visible", "handedness", "confidence",
      "index_mcp", "index_pip", "index_dip", "emg_val", "grip_val">>

LoggedColumns ==
    <<"timestamp_ns", "trial_time_s", "hand_visible", "handedness", "confidence",
      "index_mcp", "index_pip", "index_dip", "emg_val", "grip_force">>

\* the columns cols all occur in the cells, in the order of cols
InOrder(cols, cells) ==
    /\ \A i \in DOMAIN cols : \E n \in DOMAIN cells : cells[n] = cols[i]
    /\ \A i \in DOMAIN cols : \A j \in DOMAIN cols :
          i < j => (CHOOSE n \in DOMAIN cells : cells[n] = cols[i])
                     < (CHOOSE n \in DOMAIN cells : cells[n] = cols[j])

\* C26 as claimed: the header row holds the columns timestamp_ns, trial_time_s,
\* hand_visible, handedness, confidence, index_mcp, index_pip, index_dip,
\* emg_val, grip_val in this order, and every data row has as many fields as
\* the header.
C26_HeaderColumnsGripVal ==
    /\ InOrder(ClaimedColumns, csv_rows[1].cells)
    /\ \A k \in 2..Len(csv_rows) : Len(csv_rows[k].cells) = Len(csv_rows[1].cells)

\* C26 as amended: the header row is exactly timestamp_ns, trial_time_s,
\* hand_visible, handedness, confidence, index_mcp, index_pip, index_dip,
\* emg_val, grip_force, and every data row has ten fields, as the header has.
C26_HeaderColumnsGripForce ==
    /\ csv_rows[1].kind = "header"
    /\ csv_rows[1].cells = LoggedColumns
    /\ \A k \in 2..Len(csv_rows) :
          /\ csv_rows[k].kind = "row"
          /\ Len(csv_rows[k].cells) = Len(csv_rows[1].cells)

\* C26 witness: the log holds the header, a row with a detection and a row
\* without one.
C26_Witness ==
    /\ Len(csv_rows) = 3
    /\ csv_rows[2].cells[3] = 1
    /\ csv_rows[3].cells[3] = 0
    /\ Len(csv_rows[3].cells) = 10

\* the wrist and the landmarks of every finger of the skeleton lie on one
\* straight line, in order outward: each segment continues the one before it
Cross(u, v) ==
    <<u[2] * v[3] - u[3] * v[2], u[3] * v[1] - u[1] * v[3], u[1] * v[2] - u[2] * v[1]>>

FullyExtended(skeleton) ==
    LET coords == Landmarks(skeleton)
    IN  \A f \in DOMAIN JOINTS :
            LET line == <<Point(coords, Wrist), Point(coords, JOINTS[f][1]),
                          Point(coords, JOINTS[f][2]), Point(coords, JOINTS[f][3]),
                          Point(coords, JOINTS[f][4])>>
            IN  \A n \in 1..3 :
                    /\ Cross(Sub(line[n + 1], line[n]), Sub(line[n + 2], line[n + 1]))
                          = <<0, 0, 0>>
                    /\ Dot(Sub(line[n + 1], line[n]), Sub(line[n + 2], line[n + 1])) > 0

\* C29 as claimed: for every ingested detection whose skeleton is fully
\* extended, compute_hand_angles reports 0 for every joint of every finger, the
\* mcp and ip of the thumb included.
C29_ExtendedHandAllZero ==
    \A k \in DOMAIN calls :
        (calls[k].vision_result.present
         /\ FullyExtended(calls[k].vision_result.landmarks)) =>
            LET angles == ComputeHandAngles(calls[k].vision_result.landmarks)
            IN  \A f \in DOMAIN angles : \A j \in DOMAIN angles[f] : angles[f][j] = 0

----------------------------------------------------------------------------
(* Claims about the configuration of a trial, checked under SpecTrial. *)

\* C27 as claimed: a TrialController configured with a duration that is not
\* positive never starts the camera or the EMG source and never sets running.
C27_NonPositiveDurationRejected ==
    (driver = "controller" /\ config.duration <= 0) =>
        (~cam_running /\ ~emg_running /\ ~running /\ pc \in {"idle", "failed"})

\* C28 as claimed: the handedness of the row a tick has logged for a detected
\* hand is the label of the pose estimator, swapped if and only if the
\* handedness-invert flag of the configuration is set.
C28_SwapFollowsConfigFlag ==
    (tick.ingested /\ tick.label # "none" /\ Len(calls) >= 1) =>
        RowCells(Len(calls))[4] = IF config.handedness_invert THEN SwapLabel(tick.label)
                                  ELSE tick.label

----------------------------------------------------------------------------
(* Claims about the buffer of FusionEngine, checked under SpecFusion. *)

\* C34: in every state frame_data holds the data rows of the log (the lines
\* after the header), cell for cell and in the same order; and once the file
\* is closed no step changes the log or frame_data, and an ingest call made
\* then ends with an error.
C34_BufferMirrorsLog ==
    /\ [](/\ Len(csv_rows) = Len(frame_data) + 1
          /\ csv_rows[1] = HeaderLine
          /\ \A i \in DOMAIN frame_data :
                csv_rows[i + 1] = [kind |-> "row", cells |-> frame_data[i]])
    /\ [][ csv_closed =>
              /\ csv_rows' = csv_rows
              /\ frame_data' = frame_data
              /\ (close_calls' = close_calls /\ raised' # raised)
                    => raised' = "ValueError" ]_vars

\* C34 witness: a row was ingested, the engine was closed, and an ingest
\* attempted after that has failed.
C34_Witness ==
    /\ Len(frame_data) = 1
    /\ Len(csv_rows) = 2
    /\ csv_closed
    /\ raised = "ValueError"

----------------------------------------------------------------------------
(* Claims about the lock of CameraInterface, checked under SpecCamera. *)

\* C31: the lock is held only by a producer thread that has stored the frame
\* and is about to store the timestamp, a step it can take at once and that
\* releases the lock; a thread that checks running, captures, crops or sleeps
\* does not hold it.  The stored frame changes only in the step that acquires
\* the free lock, the stored timestamp only in the step of the holder that
\* releases it, a read() takes the free lock and returns with it free, and a
\* capture is made by a thread that does not hold the lock.
C31_LockHeldOnlyForSwapOrCopy ==
    /\ [](/\ lock # NoOwner =>
                /\ lock \in DOMAIN threads
                /\ threads[lock].pc = "store_ts"
                /\ ENABLED ProducerStoreTs
          /\ \A t \in DOMAIN threads : threads[t].pc = "store_ts" => lock = t)
    /\ [][ /\ frame_buffer' # frame_buffer =>
                 /\ lock = NoOwner
                 /\ lock' \in DOMAIN threads
                 /\ threads[lock'].pc = "publish"
           /\ timestamp_buffer' # timestamp_buffer =>
                 /\ lock \in DOMAIN threads
                 /\ lock' = NoOwner
           /\ Len(reads') > Len(reads) => (lock = NoOwner /\ lock' = NoOwner)
           /\ captures' # captures =>
                 /\ lock' = lock
                 /\ \A t \in DOMAIN threads :
                       threads'[t].pc # threads[t].pc => lock # t ]_vars

\* C31 witness: a read() has returned a frame, and now one producer thread
\* holds the lock between its two stores while the other is at its capture
\* attempt.
C31_Witness ==
    /\ lock # NoOwner
    /\ \E u \in DOMAIN threads : u # lock /\ threads[u].pc = "capture"
    /\ Len(reads) > 0
    /\ reads[Len(reads)].frame # NoFrame

----------------------------------------------------------------------------
(* Claims about the life cycle of CameraInterface, checked under SpecBackend. *)

\* C33: the camera never holds a CSI camera object and a capture handle
\* together; and a frame a pass of the producer loop obtains comes from
\* exactly one source, the one the handles select: in camera_interface.py the
\* CSI camera if and only if picam2 is set, the capture handle if and only if
\* picam2 is not set and cap is open, the synthetic generator if and only if
\* neither is the case (and then the camera is in mock mode); in new.py the
\* synthetic generator in mock mode and the CSI camera otherwise.
C33_OneBackendAtATime ==
    /\ [](~(cap # "none" /\ picam2 # "none"))
    /\ [][\A t \in DOMAIN threads :
             (threads[t].pc = "capture" /\ threads'[t].pc = "publish") =>
                LET origin == threads'[t].origin
                IN  /\ origin \in {"csi", "capture", "synthetic"}
                    /\ variant = "opencv" =>
                          /\ origin = "csi" <=> picam2 # "none"
                          /\ origin = "capture" <=> (picam2 = "none" /\ cap = "open")
                          /\ origin = "synthetic" <=> (picam2 = "none" /\ cap # "open")
                          /\ origin = "synthetic" => mock_mode
                    /\ variant = "picam2" =>
                          origin = (IF mock_mode THEN "synthetic" ELSE "csi") ]_vars

\* C33 witness: in mock mode the GStreamer pipeline was opened, so that both
\* the capture handle and the synthetic generator could supply frames, and
\* the frame stored last came from the capture handle.
C33_Witness ==
    /\ variant = "opencv"
    /\ mock_mode
    /\ attempted = "gstreamer"
    /\ cap = "open"
    /\ picam2 = "none"
    /\ Len(published) > 0
    /\ published[Len(published)].origin = "capture"

\* stop() has returned and no start() call has set running since
Stopped == cam_pc = "idle" /\ cam_stops > 0 /\ ~cam_running

\* C35: once stop() has returned, no producer thread stores a frame or a
\* timestamp, and no producer thread makes a capture call on a CSI camera
\* that stop() has stopped and closed.
C35_NoPublishAfterStop ==
    [][ Stopped =>
          /\ published' = published
          /\ frame_buffer' = frame_buffer
          /\ timestamp_buffer' = timestamp_buffer
          /\ \A t \in DOMAIN threads :
                (threads[t].pc = "capture" /\ threads'[t].pc # "capture") =>
                   ~(/\ CaptureStrategy(variant, mock_mode, picam2, cap) = "csi"
                     /\ picam2 = "closed") ]_vars

\* C36: at most one producer thread is in its loop at any time.
C36_OneProducerThread ==
    Cardinality({t \in DOMAIN threads : threads[t].pc # "done"}) <= 1

----------------------------------------------------------------------------
(* Claims about TrialController.stop, checked under SpecShutdown. *)

\* C32 as claimed: once TrialController.stop() has been entered and control
\* has left it, whether or not stopping the camera raised, the EMG source is
\* stopped and the FusionEngine is closed, with its summary written.
C32_ShutdownStepsAllRun ==
    (driver = "controller" /\ stop_calls > 0) =>
        /\ ~emg_running
        /\ csv_closed
        /\ summary # NoSummary

====
